---- MODULE Spec2Model ----
(***************************************************************************)
(* Model of KMCLib's LatticeTrajectory (buffered trajectory writer) run by *)
(* a group of MPI processes.  Every process executes the same sequence of  *)
(* calls: the constructor, then the calls of `script' (append / flush).    *)
(* Only the process for which MPICommons.isMaster() holds touches the      *)
(* file; MPICommons.barrier() is a full-group rendezvous.                  *)
(*                                                                         *)
(* The file is a sequence of statements.  A statement is a record          *)
(*   [kind : STRING, nums : Seq(Int), text : Seq(STRING)]                  *)
(* where `text' holds the literal pieces written and `nums' the numbers    *)
(* substituted for the format directives, as formatted.                    *)
(* Floating point values are integers in units of 1e-7; "%f" renders six   *)
(* decimals, i.e. an integer in units of 1e-6.                             *)
(***************************************************************************)
EXTENDS Integers, Sequences, FiniteSets, TLC

\* ---------------------------------------------------------------- bounds
NProcs == 2
MaxCalls == 3
MaxTicks == 1
Epoch == 2000
VeryLarge == 100000

Procs == 0 .. (NProcs - 1)
MaxClock == Epoch + MaxTicks
None == -1

\* ------------------------------------------------------- inputs of a run
SiteLists == { <<>>, << <<0, 0, 0>>, <<10000000, 0, 0>> >> }

Calls == { "append", "flush" }

SizeArgs == { None, 1 }
TimeArgs == { None, 0, VeryLarge }

\* Inputs of the encoding on its own: site lists with a coordinate that has
\* more than six decimals, labels of 1, 25 and 26 characters, rows of up to
\* MaxEncLen labels and one row of LongRowLen one-character labels, batches
\* of up to MaxRecs records.
MaxRecs == 2
MaxEncLen == 3
LongRowLen == 20

EncSiteLists == SiteLists \cup { << << 1234567, -5000004, 0 >> >> }
EncLabels == { "A", "B", "vacancy_nearest_neighbour", "vacancy_nearest_neighbours" }
EncTypes ==
    UNION { [1 .. n -> EncLabels] : n \in 0 .. MaxEncLen }
        \cup { [i \in 1 .. LongRowLen |-> "A"] }
EncTimeSteps == { 10000000, 10000003 }

\* The types of the k-th later record: the labels moved k sites on.
Rotated(types, k) ==
    [j \in 1 .. Len(types) |-> types[((j - 1 + k) % Len(types)) + 1]]

VARIABLES sites, arg_size, arg_time, script,
          pc, ip,
          types_buffer, simulation_time_buffer, step_buffer,
          time_last_dump, clock, nbarrier,
          file, file_writers

vars == << sites, arg_size, arg_time, script, pc, ip,
           types_buffer, simulation_time_buffer, step_buffer,
           time_last_dump, clock, nbarrier, file, file_writers >>

\* ----------------------------------------------------- external: MPICommons
isMaster(p) == p = 0

\* ------------------------------------------------------------- constructor
max_buffer_size == IF arg_size = None THEN 1024 * 1024 * 10 ELSE arg_size

max_buffer_time == IF arg_time = None THEN 30 * 60 ELSE arg_time

\* "%f" and "%15.6f": six decimals, round to nearest.
FmtF(x) == IF x >= 0 THEN (x + 5) \div 10 ELSE -((5 - x) \div 10)

Stmt(k, n, t) == [kind |-> k, nums |-> n, text |-> t]

RECURSIVE SitesStr(_, _)
SitesStr(s, i) ==
    IF i > Len(s) THEN [nums |-> <<>>, text |-> <<>>]
    ELSE LET rest == SitesStr(s, i + 1)
             site == s[i]
             tail == IF i = Len(s) THEN << "]\n" >> ELSE << ",\n", "       " >>
         IN [nums |-> << FmtF(site[1]), FmtF(site[2]), FmtF(site[3]) >> \o rest.nums,
             text |-> << "[%15.6f,%15.6f,%15.6f]" >> \o tail \o rest.text]

Header(s, now) ==
    LET ss == SitesStr(s, 1)
    IN << Stmt("preamble", <<>>, << "# KMCLib Trajectory\n" >>),
          Stmt("version", <<>>, << "version=\"2013.1.0\"\n" >>),
          Stmt("creation_time", << now >>, << "creation_time=\"%s\"\n" >>),
          Stmt("sites", ss.nums, << "sites=[" >> \o ss.text),
          Stmt("times_decl", <<>>, << "times=[]\n" >>),
          Stmt("steps_decl", <<>>, << "steps=[]\n" >>),
          Stmt("types_decl", <<>>, << "types=[]\n" >>) >>

\* ------------------------------------------------------------------ append
\* sys.getsizeof of a list grown from [] by n appends (CPython, 64 bit).
RECURSIVE Allocated(_)
Allocated(n) ==
    IF n = 0 THEN 0
    ELSE LET prev == Allocated(n - 1)
         IN IF n <= prev THEN prev
            ELSE n + (n \div 8) + (IF n < 9 THEN 3 ELSE 6)

\* Variant: the number of buffered records is taken for the size in bytes.
getsizeof_len(n) == n

getsizeof(n) == 72 + 8 * Allocated(n)

\* Variant: the time test is not strict.
ShouldFlush_ge(types_size, now, last) ==
    (types_size > max_buffer_size) \/ ((now - last) >= max_buffer_time)

\* Variant: both limits must be exceeded.
ShouldFlush_and(types_size, now, last) ==
    (types_size > max_buffer_size) /\ ((now - last) > max_buffer_time)

ShouldFlush(types_size, now, last) ==
    (types_size > max_buffer_size) \/ ((now - last) > max_buffer_time)

\* ------------------------------------------------------------ __writeToFile
\* Variant: the isMaster() guard is missing, every process writes.
MasterWrites_any(p) == TRUE

MasterWrites(p) == isMaster(p)

\* len(t) of a label.
LabelLen(t) == Len(t)

\* The opening of the statement and the indent of a continuation row.
types_str == "types.append(["
indent == "              "

\* Variant: the loop runs over types instead of types[:-1].
RECURSIVE TypesBody_all(_, _, _)
TypesBody_all(types, i, row_length) ==
    IF i > Len(types) THEN <<>>
    ELSE LET rl == row_length + LabelLen(types[i]) + 2
             brk == rl >= 70
         IN << "\"", types[i], "\"", "," >>
            \o (IF brk THEN << "\n", indent >> ELSE <<>>)
            \o TypesBody_all(types, i + 1, IF brk THEN Len(indent) ELSE rl)

\* The loop over types[:-1]: quoted label, comma, row break at >= 70.
RECURSIVE TypesBody(_, _, _)
TypesBody(types, i, row_length) ==
    IF i >= Len(types) THEN <<>>
    ELSE LET rl == row_length + LabelLen(types[i]) + 2
             brk == rl >= 70
         IN << "\"", types[i], "\"", "," >>
            \o (IF brk THEN << "\n", indent >> ELSE <<>>)
            \o TypesBody(types, i + 1, IF brk THEN Len(indent) ELSE rl)

\* One record; ok = FALSE when types[-1] raises IndexError (empty types),
\* after the times and steps lines have been written.
EncodeRecord(sim_time, step, types) ==
    LET head == << Stmt("times", << FmtF(sim_time) >>, << "times.append(%f)\n" >>),
                   Stmt("steps", << step >>, << "steps.append(%i)\n" >>) >>
    IN IF Len(types) = 0
       THEN [ok |-> FALSE, out |-> head]
       ELSE [ok |-> TRUE,
             out |-> head \o
                 << Stmt("types", <<>>,
                         << types_str >> \o TypesBody(types, 1, Len(types_str))
                         \o << "\"", types[Len(types)], "\"", "])\n" >>) >>]

Min(a, b) == IF a < b THEN a ELSE b

\* Variant: the batch is written last record first.
RECURSIVE WriteRecords_reversed(_, _, _, _)
WriteRecords_reversed(stb, sb, tb, i) ==
    IF i > Min(Len(stb), Min(Len(sb), Len(tb))) THEN [ok |-> TRUE, out |-> <<>>]
    ELSE LET r == EncodeRecord(stb[i], sb[i], tb[i])
         IN IF ~r.ok THEN r
            ELSE LET rest == WriteRecords_reversed(stb, sb, tb, i + 1)
                 IN [ok |-> rest.ok, out |-> rest.out \o r.out]

\* zip(simulation_time_buffer, step_buffer, types_buffer), in order, stopping
\* at the first record that raises.
RECURSIVE WriteRecords(_, _, _, _)
WriteRecords(stb, sb, tb, i) ==
    IF i > Min(Len(stb), Min(Len(sb), Len(tb))) THEN [ok |-> TRUE, out |-> <<>>]
    ELSE LET r == EncodeRecord(stb[i], sb[i], tb[i])
         IN IF ~r.ok THEN r
            ELSE LET rest == WriteRecords(stb, sb, tb, i + 1)
                 IN [ok |-> rest.ok, out |-> r.out \o rest.out]

\* ------------------------------------------------------------ the call made
NumAppends(k) == Cardinality({ j \in 1 .. k : script[j] = "append" })

\* Arguments of the call at position i of the script: steps count from 0.
StepArg(i) == NumAppends(i - 1)
TimeArg(i) == StepArg(i) * 10000003

\* configuration.types(): one label per site, the two labels swapping places
\* from one step to the next.
TypesArg(i) ==
    IF Len(sites) = 0 THEN <<>>
    ELSE IF StepArg(i) % 2 = 0 THEN << "A", "B" >> ELSE << "B", "A" >>

TypeOK ==
    /\ sites \in SiteLists
    /\ arg_size \in SizeArgs
    /\ arg_time \in TimeArgs
    /\ pc \in [Procs -> { "start", "ctor_write", "ctor_barrier", "ctor_init", "idle",
                          "flush_barrier", "flush_update", "crashed", "io_failed" }]
    /\ ip \in [Procs -> 1 .. (MaxCalls + 1)]
    /\ clock \in [Procs -> Epoch .. MaxClock]
    /\ file_writers \subseteq Procs

Init ==
    /\ sites \in SiteLists
    /\ arg_size \in SizeArgs
    /\ arg_time \in TimeArgs
    /\ script \in [1 .. MaxCalls -> Calls]
    /\ pc = [p \in Procs |-> "start"]
    /\ ip = [p \in Procs |-> 1]
    /\ types_buffer = [p \in Procs |-> <<>>]
    /\ simulation_time_buffer = [p \in Procs |-> <<>>]
    /\ step_buffer = [p \in Procs |-> <<>>]
    /\ time_last_dump = [p \in Procs |-> None]
    /\ clock = [p \in Procs |-> Epoch]
    /\ nbarrier = [p \in Procs |-> 0]
    /\ file = << Stmt("stale", <<>>, << "old contents\n" >>) >>
    /\ file_writers = {}

params == << sites, arg_size, arg_time, script >>
buffers == << types_buffer, simulation_time_buffer, step_buffer >>

\* Variant: the barrier() call sits inside the master-only block.
CtorOpen_nobarrier(p) ==
    /\ pc[p] = "start"
    /\ IF MasterWrites(p)
       THEN /\ file' = <<>>
            /\ file_writers' = file_writers \cup {p}
            /\ pc' = [pc EXCEPT ![p] = "ctor_write"]
       ELSE /\ pc' = [pc EXCEPT ![p] = "ctor_init"]
            /\ UNCHANGED << file, file_writers >>
    /\ UNCHANGED << params, ip, buffers, time_last_dump, clock, nbarrier >>

\* __init__, lines 59-61: the master opens the file with 'w' (truncating it);
\* the other processes go straight to the barrier.
CtorOpen(p) ==
    /\ pc[p] = "start"
    /\ IF MasterWrites(p)
       THEN /\ file' = <<>>
            /\ file_writers' = file_writers \cup {p}
            /\ pc' = [pc EXCEPT ![p] = "ctor_write"]
            /\ UNCHANGED nbarrier
       ELSE /\ pc' = [pc EXCEPT ![p] = "ctor_barrier"]
            /\ nbarrier' = [nbarrier EXCEPT ![p] = @ + 1]
            /\ UNCHANGED << file, file_writers >>
    /\ UNCHANGED << params, ip, buffers, time_last_dump, clock >>

\* __init__, lines 62-86: the master writes the header, closes the file and
\* calls barrier().
CtorWriteHeader(p) ==
    /\ pc[p] = "ctor_write"
    /\ file' = file \o Header(sites, clock[p])
    /\ file_writers' = file_writers \cup {p}
    /\ pc' = [pc EXCEPT ![p] = "ctor_barrier"]
    /\ nbarrier' = [nbarrier EXCEPT ![p] = @ + 1]
    /\ UNCHANGED << params, ip, buffers, time_last_dump, clock >>

\* MPICommons.barrier(): returns on every process once all have called it.
BarrierRelease ==
    /\ \A p \in Procs : pc[p] \in { "ctor_barrier", "flush_barrier" }
    /\ pc' = [p \in Procs |-> IF pc[p] = "ctor_barrier" THEN "ctor_init"
                                                       ELSE "flush_update"]
    /\ UNCHANGED << params, ip, buffers, time_last_dump, clock, nbarrier,
                    file, file_writers >>

\* Variant: the time counter starts at the construction time.
CtorInit_now(p) ==
    /\ pc[p] = "ctor_init"
    /\ types_buffer' = [types_buffer EXCEPT ![p] = <<>>]
    /\ simulation_time_buffer' = [simulation_time_buffer EXCEPT ![p] = <<>>]
    /\ step_buffer' = [step_buffer EXCEPT ![p] = <<>>]
    /\ time_last_dump' = [time_last_dump EXCEPT ![p] = clock[p]]
    /\ pc' = [pc EXCEPT ![p] = "idle"]
    /\ UNCHANGED << params, ip, clock, nbarrier, file, file_writers >>

\* __init__, lines 88-94.
CtorInit(p) ==
    /\ pc[p] = "ctor_init"
    /\ types_buffer' = [types_buffer EXCEPT ![p] = <<>>]
    /\ simulation_time_buffer' = [simulation_time_buffer EXCEPT ![p] = <<>>]
    /\ step_buffer' = [step_buffer EXCEPT ![p] = <<>>]
    /\ time_last_dump' = [time_last_dump EXCEPT ![p] = 0]
    /\ pc' = [pc EXCEPT ![p] = "idle"]
    /\ UNCHANGED << params, ip, clock, nbarrier, file, file_writers >>

\* Variant: flush() lacks the "only if there is something to write" test.
HasRecords_always(tb, stb, sb) == TRUE

\* flush(), lines 126-128.
HasRecords(tb, stb, sb) == Len(stb) > 0 /\ Len(sb) > 0 /\ Len(tb) > 0

\* Variant: the file is opened with 'w' for the records too.
OpenAppend_truncate(f, out) == out

\* __writeToFile, line 151: open(..., 'a'), the writes land after the
\* existing contents.
OpenAppend(f, out) == f \o out

\* Variant: the buffers are reset before the records are written.
FlushBuffers_resetfirst(p, tb, stb, sb) ==
    IF HasRecords(tb, stb, sb)
    THEN /\ UNCHANGED ip
         /\ types_buffer' = [types_buffer EXCEPT ![p] = <<>>]
         /\ simulation_time_buffer' = [simulation_time_buffer EXCEPT ![p] = <<>>]
         /\ step_buffer' = [step_buffer EXCEPT ![p] = <<>>]
         /\ IF MasterWrites(p)
            THEN LET w == WriteRecords(stb, sb, tb, 1)
                 IN \E j \in 0 .. Len(w.out) :
                      /\ file' = OpenAppend(file, SubSeq(w.out, 1, j))
                      /\ file_writers' = file_writers \cup {p}
                      /\ IF j < Len(w.out)
                         THEN /\ pc' = [pc EXCEPT ![p] = "io_failed"]
                              /\ UNCHANGED nbarrier
                         ELSE IF w.ok
                         THEN /\ pc' = [pc EXCEPT ![p] = "flush_barrier"]
                              /\ nbarrier' = [nbarrier EXCEPT ![p] = @ + 1]
                         ELSE /\ pc' = [pc EXCEPT ![p] = "crashed"]
                              /\ UNCHANGED nbarrier
            ELSE /\ pc' = [pc EXCEPT ![p] = "flush_barrier"]
                 /\ nbarrier' = [nbarrier EXCEPT ![p] = @ + 1]
                 /\ UNCHANGED << file, file_writers >>
    ELSE /\ types_buffer' = [types_buffer EXCEPT ![p] = tb]
         /\ simulation_time_buffer' = [simulation_time_buffer EXCEPT ![p] = stb]
         /\ step_buffer' = [step_buffer EXCEPT ![p] = sb]
         /\ ip' = [ip EXCEPT ![p] = @ + 1]
         /\ UNCHANGED << pc, nbarrier, file, file_writers >>

\* flush(), lines 126-132, and __writeToFile up to its barrier() call, run on
\* the buffers tb / stb / sb of process p.  On the master the open or one of
\* the writes may fail with an I/O error after j statements have reached the
\* file (pc "io_failed"); types[-1] on an empty types list raises IndexError
\* (pc "crashed").  Either exception leaves flush() before lines 134-136 and
\* before the barrier.
FlushBuffers(p, tb, stb, sb) ==
    /\ types_buffer' = [types_buffer EXCEPT ![p] = tb]
    /\ simulation_time_buffer' = [simulation_time_buffer EXCEPT ![p] = stb]
    /\ step_buffer' = [step_buffer EXCEPT ![p] = sb]
    /\ IF HasRecords(tb, stb, sb)
       THEN /\ UNCHANGED ip
            /\ IF MasterWrites(p)
               THEN LET w == WriteRecords(stb, sb, tb, 1)
                    IN \E j \in 0 .. Len(w.out) :
                         /\ file' = OpenAppend(file, SubSeq(w.out, 1, j))
                         /\ file_writers' = file_writers \cup {p}
                         /\ IF j < Len(w.out)
                            THEN /\ pc' = [pc EXCEPT ![p] = "io_failed"]
                                 /\ UNCHANGED nbarrier
                            ELSE IF w.ok
                            THEN /\ pc' = [pc EXCEPT ![p] = "flush_barrier"]
                                 /\ nbarrier' = [nbarrier EXCEPT ![p] = @ + 1]
                            ELSE /\ pc' = [pc EXCEPT ![p] = "crashed"]
                                 /\ UNCHANGED nbarrier
               ELSE /\ pc' = [pc EXCEPT ![p] = "flush_barrier"]
                    /\ nbarrier' = [nbarrier EXCEPT ![p] = @ + 1]
                    /\ UNCHANGED << file, file_writers >>
       ELSE /\ ip' = [ip EXCEPT ![p] = @ + 1]
            /\ UNCHANGED << pc, nbarrier, file, file_writers >>

\* append(), lines 110-121.
AppendCall(p) ==
    /\ pc[p] = "idle"
    /\ ip[p] <= Len(script)
    /\ script[ip[p]] = "append"
    /\ \E now \in clock[p] .. MaxClock :
         LET tb == Append(types_buffer[p], TypesArg(ip[p]))
             stb == Append(simulation_time_buffer[p], TimeArg(ip[p]))
             sb == Append(step_buffer[p], StepArg(ip[p]))
         IN /\ clock' = [clock EXCEPT ![p] = now]
            /\ IF ShouldFlush(getsizeof(Len(tb)), now, time_last_dump[p])
               THEN FlushBuffers(p, tb, stb, sb)
               ELSE /\ types_buffer' = [types_buffer EXCEPT ![p] = tb]
                    /\ simulation_time_buffer' = [simulation_time_buffer EXCEPT ![p] = stb]
                    /\ step_buffer' = [step_buffer EXCEPT ![p] = sb]
                    /\ ip' = [ip EXCEPT ![p] = @ + 1]
                    /\ UNCHANGED << pc, nbarrier, file, file_writers >>
    /\ UNCHANGED << params, time_last_dump >>

\* An explicit flush() call.
FlushCall(p) ==
    /\ pc[p] = "idle"
    /\ ip[p] <= Len(script)
    /\ script[ip[p]] = "flush"
    /\ FlushBuffers(p, types_buffer[p], simulation_time_buffer[p], step_buffer[p])
    /\ UNCHANGED << params, time_last_dump, clock >>

\* Variant: only the master updates the time and resets its buffers.
FlushUpdate_masteronly(p) ==
    /\ pc[p] = "flush_update"
    /\ \E now \in clock[p] .. MaxClock :
         /\ clock' = [clock EXCEPT ![p] = now]
         /\ time_last_dump' = [time_last_dump EXCEPT ![p] = IF isMaster(p) THEN now ELSE @]
    /\ types_buffer' = [types_buffer EXCEPT ![p] = IF isMaster(p) THEN <<>> ELSE @]
    /\ simulation_time_buffer' =
          [simulation_time_buffer EXCEPT ![p] = IF isMaster(p) THEN <<>> ELSE @]
    /\ step_buffer' = [step_buffer EXCEPT ![p] = IF isMaster(p) THEN <<>> ELSE @]
    /\ pc' = [pc EXCEPT ![p] = "idle"]
    /\ ip' = [ip EXCEPT ![p] = @ + 1]
    /\ UNCHANGED << params, nbarrier, file, file_writers >>

\* Variant: the buffers are not reset after the write.
FlushUpdate_noreset(p) ==
    /\ pc[p] = "flush_update"
    /\ \E now \in clock[p] .. MaxClock :
         /\ clock' = [clock EXCEPT ![p] = now]
         /\ time_last_dump' = [time_last_dump EXCEPT ![p] = now]
    /\ pc' = [pc EXCEPT ![p] = "idle"]
    /\ ip' = [ip EXCEPT ![p] = @ + 1]
    /\ UNCHANGED << params, buffers, nbarrier, file, file_writers >>

\* Variant: the step buffer is left out of the reset.
FlushUpdate_partial(p) ==
    /\ pc[p] = "flush_update"
    /\ \E now \in clock[p] .. MaxClock :
         /\ clock' = [clock EXCEPT ![p] = now]
         /\ time_last_dump' = [time_last_dump EXCEPT ![p] = now]
    /\ types_buffer' = [types_buffer EXCEPT ![p] = <<>>]
    /\ simulation_time_buffer' = [simulation_time_buffer EXCEPT ![p] = <<>>]
    /\ pc' = [pc EXCEPT ![p] = "idle"]
    /\ ip' = [ip EXCEPT ![p] = @ + 1]
    /\ UNCHANGED << params, step_buffer, nbarrier, file, file_writers >>

\* After the barrier: __writeToFile line 179, then flush() lines 134-136.
FlushUpdate(p) ==
    /\ pc[p] = "flush_update"
    /\ \E now \in clock[p] .. MaxClock :
         /\ clock' = [clock EXCEPT ![p] = now]
         /\ time_last_dump' = [time_last_dump EXCEPT ![p] = now]
    /\ types_buffer' = [types_buffer EXCEPT ![p] = <<>>]
    /\ simulation_time_buffer' = [simulation_time_buffer EXCEPT ![p] = <<>>]
    /\ step_buffer' = [step_buffer EXCEPT ![p] = <<>>]
    /\ pc' = [pc EXCEPT ![p] = "idle"]
    /\ ip' = [ip EXCEPT ![p] = @ + 1]
    /\ UNCHANGED << params, nbarrier, file, file_writers >>

Next ==
    \/ \E p \in Procs : CtorOpen(p)
    \/ \E p \in Procs : CtorWriteHeader(p)
    \/ BarrierRelease
    \/ \E p \in Procs : CtorInit(p)
    \/ \E p \in Procs : AppendCall(p)
    \/ \E p \in Procs : FlushCall(p)
    \/ \E p \in Procs : FlushUpdate(p)

Spec == Init /\ [][Next]_vars

\* ------------------------------------------------- the encoding on its own
\* The master writes the header and then one batch handed to __writeToFile;
\* the batch is any of the bounded inputs, not only what the script above
\* can append.
InitEnc ==
    /\ sites \in EncSiteLists
    /\ arg_size = None
    /\ arg_time = None
    /\ script = [i \in 1 .. MaxCalls |-> "flush"]
    /\ pc = [p \in Procs |-> "start"]
    /\ ip = [p \in Procs |-> 1]
    /\ \E n \in 0 .. MaxRecs, dt \in EncTimeSteps, ty \in EncTypes :
          /\ types_buffer = [p \in Procs |-> [i \in 1 .. n |-> Rotated(ty, i - 1)]]
          /\ simulation_time_buffer = [p \in Procs |-> [i \in 1 .. n |-> (i - 1) * dt]]
          /\ step_buffer = [p \in Procs |-> [i \in 1 .. n |-> i - 1]]
    /\ time_last_dump = [p \in Procs |-> None]
    /\ clock = [p \in Procs |-> Epoch]
    /\ nbarrier = [p \in Procs |-> 0]
    /\ file = << Stmt("stale", <<>>, << "old contents\n" >>) >>
    /\ file_writers = {}

\* __writeToFile, lines 150-176, on the master, without an I/O failure: the
\* batch is appended to the file up to the record that raises.
writeToFile(p) ==
    /\ MasterWrites(p)
    /\ pc[p] = "ctor_barrier"
    /\ LET w == WriteRecords(simulation_time_buffer[p], step_buffer[p], types_buffer[p], 1)
       IN /\ file' = OpenAppend(file, w.out)
          /\ file_writers' = file_writers \cup {p}
          /\ IF w.ok
             THEN /\ pc' = [pc EXCEPT ![p] = "flush_barrier"]
                  /\ nbarrier' = [nbarrier EXCEPT ![p] = @ + 1]
             ELSE /\ pc' = [pc EXCEPT ![p] = "crashed"]
                  /\ UNCHANGED nbarrier
    /\ UNCHANGED << params, ip, buffers, time_last_dump, clock >>

NextEnc ==
    \/ \E p \in Procs : isMaster(p) /\ CtorOpen(p)
    \/ \E p \in Procs : isMaster(p) /\ CtorWriteHeader(p)
    \/ \E p \in Procs : writeToFile(p)

SpecEnc == InitEnc /\ [][NextEnc]_vars

\* ================================================================ properties
\* What a reader of the file sees.
OfKind(k) == SelectSeq(file, LAMBDA st : st.kind = k)

FileSteps == LET sel == OfKind("steps") IN [i \in 1 .. Len(sel) |-> sel[i].nums[1]]
FileTimes == LET sel == OfKind("times") IN [i \in 1 .. Len(sel) |-> sel[i].nums[1]]

Labels == EncLabels
FileTypes ==
    LET sel == OfKind("types")
    IN [i \in 1 .. Len(sel) |-> SelectSeq(sel[i].text, LAMBDA tok : tok \in Labels)]

\* The statements after the header.
FileBody == SelectSeq(file, LAMBDA st : st.kind \in { "times", "steps", "types" })

\* Position in the script of the k-th append call (k from 1).
AppendPos(k) == CHOOSE i \in 1 .. Len(script) :
                    script[i] = "append" /\ NumAppends(i) = k

\* Process p is between two calls, the last one returned being of kind op.
Returned(p, op) == pc[p] = "idle" /\ ip[p] > 1 /\ script[ip[p] - 1] = op

BufferEmpty(p) ==
    /\ types_buffer[p] = <<>>
    /\ simulation_time_buffer[p] = <<>>
    /\ step_buffer[p] = <<>>

\* C1: order preservation.  Once an explicit flush() has returned on the
\* writing process, the steps recorded in the file are 0, 1, ..., N-1 in
\* order, N being the number of append calls made so far, wherever the
\* earlier flushes happened.
C1_OrderPreserved ==
    \A p \in Procs :
        (isMaster(p) /\ Returned(p, "flush"))
            => FileSteps = [i \in 1 .. NumAppends(ip[p] - 1) |-> i - 1]

C1_Witness ==
    \E p \in Procs :
        /\ isMaster(p) /\ Returned(p, "flush")
        /\ NumAppends(ip[p] - 1) >= 2
        /\ Len(FileSteps) >= 2
        /\ nbarrier[p] = 2

\* C2: the file grows by whole triples.  The file holds equally many
\* times, steps and types statements, in triples, and the k-th triple encodes
\* the k-th appended record, whatever the length of its types sequence
\* (runs in which a write failed with an I/O error set aside).
C2_WholeTriples ==
    (\A p \in Procs : pc[p] # "io_failed") =>
        /\ Len(FileTimes) = Len(FileSteps)
        /\ Len(FileSteps) = Len(FileTypes)
        /\ \A j \in 1 .. Len(FileBody) :
              FileBody[j].kind = (IF j % 3 = 1 THEN "times"
                                  ELSE IF j % 3 = 2 THEN "steps" ELSE "types")
        /\ Len(FileTypes) <= NumAppends(Len(script))
        /\ \A k \in 1 .. Len(FileTypes) :
              /\ FileTimes[k] = FmtF(TimeArg(AppendPos(k)))
              /\ FileSteps[k] = StepArg(AppendPos(k))
              /\ FileTypes[k] = TypesArg(AppendPos(k))
        /\ \A p \in Procs :
              (isMaster(p) /\ (pc[p] \in { "ctor_barrier", "ctor_init" }
                               \/ (pc[p] = "idle" /\ ip[p] = 1)))
                  => FileBody = <<>>

\* C3: master-only I/O.  Every process that has truncated, opened or
\* written the trajectory file is the master.
C3_MasterOnlyIO == \A p \in file_writers : isMaster(p)

C3_Witness ==
    /\ file_writers # {}
    /\ Len(FileBody) >= 3
    /\ \E p \in Procs : ~isMaster(p) /\ pc[p] = "idle" /\ nbarrier[p] >= 2

AtBarrier(p) == pc[p] \in { "ctor_barrier", "flush_barrier" }

\* C4: identical evolution.  Two processes that have both returned from
\* their k-th call hold the same records in their buffers.
C4_BuffersIdentical ==
    \A p, q \in Procs :
        (pc[p] = "idle" /\ pc[q] = "idle" /\ ip[p] = ip[q])
            => /\ types_buffer[p] = types_buffer[q]
               /\ simulation_time_buffer[p] = simulation_time_buffer[q]
               /\ step_buffer[p] = step_buffer[q]

\* C5: barriers belong to the same write.  Two processes waiting in
\* barrier() wait for the same operation (construction, or the flush of the
\* same call), and no process waits in barrier() while another one has
\* returned from its last call.
C5_BarriersAligned ==
    /\ \A p, q \in Procs :
          (AtBarrier(p) /\ AtBarrier(q)) => (pc[p] = pc[q] /\ ip[p] = ip[q])
    /\ \A p, q \in Procs :
          AtBarrier(p) => ~(pc[q] = "idle" /\ ip[q] > Len(script))

HeaderKinds == << "preamble", "version", "creation_time", "sites",
                  "times_decl", "steps_decl", "types_decl" >>

HeaderComplete ==
    /\ Len(file) >= Len(HeaderKinds)
    /\ \A i \in 1 .. Len(HeaderKinds) : file[i].kind = HeaderKinds[i]

\* C6: construction ordering.  A process that has left the constructor's
\* barrier finds the file truncated and the header completely written, and
\* has called barrier() exactly once when the constructor returns.
C6_HeaderBeforeReturn ==
    \A p \in Procs :
        /\ pc[p] \notin { "start", "ctor_write", "ctor_barrier" } => HeaderComplete
        /\ (pc[p] = "idle" /\ ip[p] = 1) => nbarrier[p] = 1

C6_Witness ==
    \E p, q \in Procs :
        /\ ~isMaster(p) /\ pc[p] = "idle" /\ ip[p] = 1
        /\ isMaster(q) /\ pc[q] = "ctor_init"
        /\ HeaderComplete

\* A step in which process p executes the body of append().
AppendStep(p) ==
    /\ pc[p] = "idle"
    /\ ip[p] <= Len(script)
    /\ script[ip[p]] = "append"
    /\ (pc'[p] # pc[p] \/ ip'[p] # ip[p])

\* C7: append's flush decision.  append() goes into flush() exactly when
\* the size of the grown buffer strictly exceeds max_buffer_size or the time
\* since time_last_dump strictly exceeds max_buffer_time; otherwise it
\* returns with the file, the barrier count and time_last_dump unchanged and
\* the buffers grown by the one record.
C7_FlushDecision ==
    [][\A p \in Procs :
         AppendStep(p) =>
           LET exceeded == \/ getsizeof(Len(types_buffer[p]) + 1) > max_buffer_size
                           \/ clock'[p] - time_last_dump[p] > max_buffer_time
           IN /\ exceeded <=> pc'[p] \in { "flush_barrier", "crashed", "io_failed" }
              /\ ~exceeded =>
                    /\ pc'[p] = "idle" /\ ip'[p] = ip[p] + 1
                    /\ file' = file /\ file_writers' = file_writers
                    /\ nbarrier' = nbarrier
                    /\ time_last_dump' = time_last_dump
                    /\ types_buffer'[p] = Append(types_buffer[p], TypesArg(ip[p]))
                    /\ simulation_time_buffer'[p]
                          = Append(simulation_time_buffer[p], TimeArg(ip[p]))
                    /\ step_buffer'[p] = Append(step_buffer[p], StepArg(ip[p]))]_vars

C7_Witness ==
    \E p \in Procs :
        /\ Returned(p, "append")
        /\ Len(types_buffer[p]) = 1
        /\ time_last_dump[p] >= Epoch
        /\ nbarrier[p] = 2

\* max_buffer_size very large (the default) and max_buffer_time = 0.
TimeTriggered == arg_size = None /\ arg_time = 0

\* C8 as stated: with max_buffer_size very large and max_buffer_time = 0
\* the buffer is empty whenever append() has returned.
C8_AlwaysFlushes ==
    \A p \in Procs : (TimeTriggered /\ Returned(p, "append")) => BufferEmpty(p)

\* C8: time-triggered flush.  With max_buffer_size very large and
\* max_buffer_time = 0, an append() whose wall-clock instant is strictly
\* later than time_last_dump goes into flush(), and the buffer is empty when
\* that append() returns.
C8_FlushesWhenLater ==
    [][\A p \in Procs :
         TimeTriggered =>
           /\ (AppendStep(p) /\ clock'[p] > time_last_dump[p])
                 => pc'[p] \in { "flush_barrier", "crashed", "io_failed" }
           /\ (pc[p] = "flush_update" /\ pc'[p] = "idle")
                 => (BufferEmpty(p))']_vars

C8_Witness ==
    \E p \in Procs :
        /\ TimeTriggered
        /\ Returned(p, "append")
        /\ NumAppends(ip[p] - 1) >= 2
        /\ BufferEmpty(p)
        /\ nbarrier[p] >= 3

\* The record of the call at script position i is in the file.
RecordInFile(i) ==
    LET k == StepArg(i) + 1
    IN /\ Len(FileSteps) >= k /\ Len(FileTimes) >= k /\ Len(FileTypes) >= k
       /\ FileSteps[k] = StepArg(i)
       /\ FileTimes[k] = FmtF(TimeArg(i))
       /\ FileTypes[k] = TypesArg(i)

\* C9: size-triggered flush.  With max_buffer_size = 1 and
\* max_buffer_time very large, when append() has returned the buffer is
\* empty and the record is in the file.
C9_SizeTriggered ==
    \A p \in Procs :
        (arg_size = 1 /\ arg_time = VeryLarge /\ Returned(p, "append"))
            => (BufferEmpty(p) /\ RecordInFile(ip[p] - 1))

C9_Witness ==
    \E p \in Procs :
        /\ arg_size = 1 /\ arg_time = VeryLarge
        /\ Returned(p, "append")
        /\ ip[p] = 2
        /\ Len(FileBody) = 3

\* Process p has returned from its first append() call.
FirstAppendReturned(p) == Returned(p, "append") /\ NumAppends(ip[p] - 1) = 1

\* C10 as stated: after construction the buffer is empty and time_last_dump
\* is the wall-clock time at construction, so a first append() made less
\* than max_buffer_time after construction, the size limit not exceeded,
\* does not flush.
C10_StampIsConstructionTime ==
    \A p \in Procs :
        /\ (pc[p] = "idle" /\ ip[p] = 1)
              => (BufferEmpty(p) /\ time_last_dump[p] = clock[p])
        /\ (FirstAppendReturned(p) /\ arg_size = None /\ max_buffer_time > MaxTicks)
              => ~BufferEmpty(p)

\* C10: after construction the buffer is empty and time_last_dump is
\* 0, so the first append() measures the elapsed time from 0: it flushes
\* when the wall clock exceeds max_buffer_time, and with the size limit not
\* exceeded it does not flush when max_buffer_time is at least the wall clock.
C10_StampIsZero ==
    \A p \in Procs :
        /\ (pc[p] = "idle" /\ ip[p] = 1)
              => (BufferEmpty(p) /\ time_last_dump[p] = 0)
        /\ (FirstAppendReturned(p) /\ max_buffer_time < Epoch) => BufferEmpty(p)
        /\ (FirstAppendReturned(p) /\ arg_size = None /\ max_buffer_time >= MaxClock)
              => (~BufferEmpty(p) /\ time_last_dump[p] = 0)

C10_Witness ==
    \E p \in Procs :
        /\ FirstAppendReturned(p)
        /\ arg_size = None /\ arg_time = None
        /\ BufferEmpty(p)
        /\ time_last_dump[p] = clock[p]
        /\ clock[p] = Epoch

\* A step in which process p executes flush() on an empty buffer.
EmptyFlushStep(p) ==
    /\ pc[p] = "idle"
    /\ ip[p] <= Len(script)
    /\ script[ip[p]] = "flush"
    /\ BufferEmpty(p)
    /\ (pc'[p] # pc[p] \/ ip'[p] # ip[p])

\* C11: empty-buffer flush is a no-op.  A flush() call on an empty buffer,
\* on any process, returns at once and leaves the file, the buffers,
\* time_last_dump and the number of barrier() calls as they were.
C11_EmptyFlushNoop ==
    [][\A p \in Procs :
         EmptyFlushStep(p) =>
           /\ pc'[p] = "idle" /\ ip'[p] = ip[p] + 1
           /\ file' = file /\ file_writers' = file_writers
           /\ (BufferEmpty(p))'
           /\ time_last_dump' = time_last_dump
           /\ nbarrier' = nbarrier]_vars

C11_Witness ==
    \E p \in Procs :
        /\ ~isMaster(p)
        /\ pc[p] = "idle" /\ ip[p] = 3
        /\ script[1] = "flush" /\ script[2] = "flush"
        /\ nbarrier[p] = 1 /\ time_last_dump[p] = 0

\* A step in which flush() returns on process p after having written.
FlushReturnStep(p) == pc[p] = "flush_update" /\ pc'[p] = "idle"

\* The i-th buffered record of process p stands in the file, at the place
\* its step number gives it.
BufferedInFile(p, i) ==
    LET k == step_buffer[p][i] + 1
    IN /\ Len(FileSteps) >= k /\ Len(FileTimes) >= k /\ Len(FileTypes) >= k
       /\ FileSteps[k] = step_buffer[p][i]
       /\ FileTimes[k] = FmtF(simulation_time_buffer[p][i])
       /\ FileTypes[k] = types_buffer[p][i]

\* C12: flush postcondition.  When a flush() that found records and met no
\* failure returns, on the master and on every other process the three
\* buffers are empty and time_last_dump is the wall-clock time of the return;
\* on the master every record that was buffered is in the file.
C12_FlushPostcondition ==
    [][\A p \in Procs :
         FlushReturnStep(p) =>
           /\ ~BufferEmpty(p)
           /\ (BufferEmpty(p))'
           /\ time_last_dump'[p] = clock'[p]
           /\ isMaster(p) =>
                 /\ \A i \in 1 .. Len(step_buffer[p]) : BufferedInFile(p, i)
                 /\ file' = file]_vars

C12_Witness ==
    \E p, q \in Procs :
        /\ ~isMaster(p) /\ Returned(p, "flush")
        /\ BufferEmpty(p) /\ time_last_dump[p] = clock[p] /\ nbarrier[p] = 2
        /\ isMaster(q) /\ Returned(q, "flush") /\ BufferEmpty(q)
        /\ Len(FileBody) = 6

\* A step in which a flush() of process p fails with an I/O error.
IOFailStep(p) == pc[p] = "idle" /\ pc'[p] = "io_failed"

\* C13: flush is all-or-nothing for the buffer.  When the open or a write
\* fails during flush(), the error leaves flush() (and append()) at once: no
\* buffer is cleared or shortened, time_last_dump is not updated, no barrier
\* is called, and the process does nothing afterwards.
C13_FailureKeepsBuffer ==
    [][\A p \in Procs :
         /\ IOFailStep(p) =>
              LET grown == script[ip[p]] = "append"
              IN /\ types_buffer'[p] =
                      (IF grown THEN Append(types_buffer[p], TypesArg(ip[p]))
                       ELSE types_buffer[p])
                 /\ simulation_time_buffer'[p] =
                      (IF grown THEN Append(simulation_time_buffer[p], TimeArg(ip[p]))
                       ELSE simulation_time_buffer[p])
                 /\ step_buffer'[p] =
                      (IF grown THEN Append(step_buffer[p], StepArg(ip[p]))
                       ELSE step_buffer[p])
                 /\ ~(BufferEmpty(p))'
                 /\ time_last_dump' = time_last_dump
                 /\ nbarrier' = nbarrier
                 /\ ip'[p] = ip[p]
         /\ pc[p] = "io_failed" =>
              /\ pc'[p] = "io_failed" /\ ip'[p] = ip[p]
              /\ types_buffer'[p] = types_buffer[p]
              /\ simulation_time_buffer'[p] = simulation_time_buffer[p]
              /\ step_buffer'[p] = step_buffer[p]
              /\ time_last_dump'[p] = time_last_dump[p]
              /\ file' = file]_vars

C13_Witness ==
    \E p \in Procs :
        /\ pc[p] = "io_failed"
        /\ script[ip[p]] = "flush"
        /\ Len(step_buffer[p]) = 2 /\ Len(types_buffer[p]) = 2
        /\ Len(FileBody) = 4
        /\ time_last_dump[p] = 0

\* The master has finished writing the header.
Constructed == \A p \in Procs : isMaster(p) => pc[p] \notin { "start", "ctor_write" }

IsPrefix(f, g) == Len(f) <= Len(g) /\ SubSeq(g, 1, Len(f)) = f

\* C14: the header is written once and the file is append-only afterwards.
\* Construction replaces whatever the file held by the header (preamble,
\* version, creation time, sites, the three empty declarations, in this
\* order); after it every step leaves the old contents as a prefix of the
\* new ones, and no header statement occurs a second time.
C14_AppendOnly ==
    /\ [][Constructed => IsPrefix(file, file')]_vars
    /\ [](Constructed =>
            /\ HeaderComplete
            /\ \E now \in Epoch .. MaxClock :
                  SubSeq(file, 1, Len(HeaderKinds)) = Header(sites, now)
            /\ \A i \in (Len(HeaderKinds) + 1) .. Len(file) :
                  file[i].kind \in { "times", "steps", "types" })

C14_Witness ==
    \E p \in Procs :
        /\ isMaster(p) /\ pc[p] = "idle" /\ nbarrier[p] = 3
        /\ Len(file) = Len(HeaderKinds) + 6

\* The whole records (triples) in the file, the records in the buffer of
\* process p and the records p has appended so far, as
\* << time as written, step, types >>.
FileRecords ==
    [k \in 1 .. Len(FileTypes) |-> << FileTimes[k], FileSteps[k], FileTypes[k] >>]

BufferRecords(p) ==
    [i \in 1 .. Len(types_buffer[p]) |->
        << FmtF(simulation_time_buffer[p][i]), step_buffer[p][i], types_buffer[p][i] >>]

AppendedRecords(p) ==
    LET n == IF pc[p] = "idle" THEN NumAppends(ip[p] - 1) ELSE NumAppends(ip[p])
    IN [k \in 1 .. n |->
          << FmtF(TimeArg(AppendPos(k))), StepArg(AppendPos(k)), TypesArg(AppendPos(k)) >>]

\* The writing process is between two calls, or a flush() of it has raised.
NoFlushInProgress(p) == isMaster(p) /\ pc[p] \in { "idle", "crashed", "io_failed" }

\* C16 as stated: outside a flush in progress the records in the file
\* followed by the records in the buffer are the records appended so far.
C16_FileThenBuffer ==
    \A p \in Procs :
        NoFlushInProgress(p) => FileRecords \o BufferRecords(p) = AppendedRecords(p)

\* C16: conservation of records.  Outside a flush in progress the whole
\* records in the file are a prefix of the records appended so far and the
\* records in the buffer are a suffix of them, and the two cover them all;
\* they do not overlap as long as no flush() has raised.
C16_PrefixAndSuffix ==
    \A p \in Procs :
        NoFlushInProgress(p) =>
            LET F == FileRecords
                B == BufferRecords(p)
                A == AppendedRecords(p)
            IN /\ Len(types_buffer[p]) = Len(step_buffer[p])
               /\ Len(step_buffer[p]) = Len(simulation_time_buffer[p])
               /\ IsPrefix(F, A)
               /\ Len(B) <= Len(A)
               /\ SubSeq(A, Len(A) - Len(B) + 1, Len(A)) = B
               /\ Len(F) + Len(B) >= Len(A)
               /\ pc[p] = "idle" => Len(F) + Len(B) = Len(A)

C16_Witness ==
    \E p \in Procs :
        /\ isMaster(p) /\ pc[p] = "idle"
        /\ Len(FileRecords) = 1
        /\ Len(BufferRecords(p)) = 1
        /\ Len(AppendedRecords(p)) = 2

BuffersEqualLength(p) ==
    /\ Len(types_buffer[p]) = Len(simulation_time_buffer[p])
    /\ Len(simulation_time_buffer[p]) = Len(step_buffer[p])

\* C17: the three buffers are parallel.  They have the same length in
\* every state; an append() makes each of them one longer, and a flush()
\* that wrote empties all three in the same step.
C17_ParallelBuffers ==
    /\ [](\A p \in Procs : BuffersEqualLength(p))
    /\ [][\A p \in Procs :
            /\ AppendStep(p) =>
                  /\ Len(types_buffer'[p]) = Len(types_buffer[p]) + 1
                  /\ Len(simulation_time_buffer'[p]) = Len(simulation_time_buffer[p]) + 1
                  /\ Len(step_buffer'[p]) = Len(step_buffer[p]) + 1
            /\ FlushReturnStep(p) => (BufferEmpty(p))'
            /\ (types_buffer'[p] # types_buffer[p]) <=> (step_buffer'[p] # step_buffer[p])
            /\ (step_buffer'[p] # step_buffer[p])
                  <=> (simulation_time_buffer'[p] # simulation_time_buffer[p])]_vars

C17_Witness ==
    \E p \in Procs :
        /\ pc[p] = "idle"
        /\ Len(types_buffer[p]) = 2
        /\ Len(simulation_time_buffer[p]) = 2
        /\ Len(step_buffer[p]) = 2

\* -------------------------------------------------- reading the file back
\* A number written with six decimals, read back.
ParseF(m) == m * 10

\* The sites statement read back: a list only if its bracket is closed.
ParsedSites ==
    LET sel == OfKind("sites")
        st == sel[1]
        n == Len(st.nums) \div 3
    IN IF Len(sel) # 1 \/ st.text[Len(st.text)] # "]\n"
       THEN [ok |-> FALSE, val |-> <<>>]
       ELSE [ok |-> TRUE,
             val |-> [i \in 1 .. n |-> << ParseF(st.nums[3 * i - 2]),
                                          ParseF(st.nums[3 * i - 1]),
                                          ParseF(st.nums[3 * i]) >>]]

ParsedTimes == [i \in 1 .. Len(FileTimes) |-> ParseF(FileTimes[i])]

\* __writeToFile has run on the master: it returned or it raised.
Written(p) == isMaster(p) /\ pc[p] \in { "flush_barrier", "crashed" }

\* Every record has one label per site.
OneLabelPerSite(p) ==
    \A i \in 1 .. Len(types_buffer[p]) : Len(types_buffer[p][i]) = Len(sites)

\* C15: round trip.  For a site list and a batch of records with one label
\* per site each, the file read back after the batch is written gives the
\* site list, the times, the steps and the types that were handed in.
C15_RoundTrip ==
    \A p \in Procs :
        (Written(p) /\ OneLabelPerSite(p)) =>
            /\ ParsedSites.ok
            /\ ParsedSites.val = sites
            /\ ParsedTimes = simulation_time_buffer[p]
            /\ FileSteps = step_buffer[p]
            /\ FileTypes = types_buffer[p]

\* The tokens of a types statement without the row breaks.
Unbroken(text) == SelectSeq(text, LAMBDA tok : tok \notin { "\n", indent })

\* text is the statement for types: the opening, then every label once and
\* in order between double quotes, a comma after each but the last, the
\* closing bracket after the last; a row break only after a comma and
\* before the indent and the next label's quote, the indent as long as the
\* opening.
WellFormedTypes(text, types) ==
    LET flat == Unbroken(text)
        n == Len(types)
    IN /\ n > 0
       /\ Len(flat) = 4 * n + 1
       /\ flat[1] = "types.append(["
       /\ \A i \in 1 .. n :
             /\ flat[4 * i - 2] = "\""
             /\ flat[4 * i - 1] = types[i]
             /\ flat[4 * i] = "\""
             /\ flat[4 * i + 1] = IF i < n THEN "," ELSE "])\n"
       /\ \A k \in 1 .. Len(text) :
             /\ text[k] = "\n" =>
                   /\ k > 1 /\ text[k - 1] = ","
                   /\ k + 2 <= Len(text)
                   /\ text[k + 1] = indent
                   /\ Len(text[k + 1]) = Len(text[1])
                   /\ text[k + 2] = "\""
             /\ text[k] = indent => (k > 1 /\ text[k - 1] = "\n")

\* The records of the batch before the first one without labels.
RECURSIVE NumWritable(_, _)
NumWritable(tb, i) ==
    IF i > Len(tb) \/ Len(tb[i]) = 0 THEN 0 ELSE 1 + NumWritable(tb, i + 1)

\* C18: structure of the types statement.  Every record with labels that
\* is written gets one types statement, and that statement is well formed
\* for the record's labels.
C18_TypesStructure ==
    \A p \in Procs :
        Written(p) =>
            LET sel == OfKind("types")
            IN /\ Len(sel) = NumWritable(types_buffer[p], 1)
               /\ \A k \in 1 .. Len(sel) :
                     WellFormedTypes(sel[k].text, types_buffer[p][k])

C18_Witness ==
    \E p \in Procs :
        /\ Written(p)
        /\ Len(OfKind("types")) = 2
        /\ \E k \in 1 .. 2 :
              /\ Len(types_buffer[p][k]) >= 3
              /\ \E j \in 1 .. Len(OfKind("types")[k].text) :
                    OfKind("types")[k].text[j] = "\n"

\* The characters rendered on the row of token k, up to and including it.
RECURSIVE Rendered(_, _)
Rendered(text, k) ==
    IF k = 0 \/ text[k] = "\n" THEN 0
    ELSE Len(text[k]) + Rendered(text, k - 1)

\* C19: row width.  In every types statement a row break follows an
\* element exactly when the characters rendered on its row have reached
\* 70, and no row is longer than 70 characters plus the rendered width of
\* its last element (the label, its quotes and what follows it).
C19_RowWidth ==
    \A p \in Procs :
        Written(p) =>
            \A st \in { OfKind("types")[k] : k \in 1 .. Len(OfKind("types")) } :
                \A k \in 1 .. Len(st.text) :
                    LET text == st.text
                        broken == k < Len(text) /\ text[k + 1] = "\n"
                    IN /\ text[k] = "," => (broken <=> Rendered(text, k) >= 70)
                       /\ (text[k] = "," /\ broken) =>
                             Rendered(text, k) <= 70 + Len(text[k - 2]) + 3
                       /\ text[k] = "])\n" =>
                             Rendered(text, k) - 1 <= 70 + Len(text[k - 2]) + 4

====
